---- MODULE Spec2Model ----
(***************************************************************************)
(* Model of the feed recommendation service (app.py).                      *)
(*                                                                         *)
(* One request (a user and a list of posts) is handled by                  *)
(* recommend_posts_for_user: a TfidfVectorizer is fitted on the corpus,    *)
(* the cosine similarity of every post to the user's interests is taken,   *)
(* every post gets an engagement, a recency and a composite score, and the *)
(* annotated posts are sorted by the rounded score, descending.            *)
(*                                                                         *)
(* Numbers.  Engagement, recency and score are exact rationals             *)
(* [num, den] with den > 0.  The TF-IDF weights and the cosine similarity  *)
(* involve ln and sqrt and are kept in fixed point: idf in thousandths,    *)
(* normalised weights and similarity in units of 1/SimScale.  A text is a  *)
(* sequence of words; lower-casing, the token pattern and the stop list    *)
(* act on words.  Time is counted in ticks, TicksPerDay to the day.        *)
(***************************************************************************)
EXTENDS Integers, Sequences, FiniteSets, TLC

\* ------------------------------------------------------------------ bounds
MaxPosts == 2      \* longest list of posts in a request
MaxDrift == 1      \* ticks the wall clock may advance during one call

\* --------------------------------------------------------------- constants
TicksPerDay == 2   \* resolution of the clock: timedelta.days = ticks \div TicksPerDay
SimScale == 10000  \* fixed-point resolution of weights and similarities
ScoreDigits == 4   \* round(score, 4)
PartDigits == 3    \* round(similarity | engagement | recency, 3)

\* ------------------------------------------------------------------- state
VARIABLES
    data,       \* the request under study: [user, posts] (RequestData)
    args,       \* the request the last call served
    called,     \* TRUE once recommend_posts_for_user has been called
    readings,    \* the readings of datetime.now() the last call took, one per post
    raised,     \* the exception the last call raised, "" when it returned
    response,   \* the list the last call returned (<<>> when it raised)
    loop,       \* the loop's values of the last call, per post it reached
    perm,       \* perm[k]: the input index of the k-th result of the last call
    first,      \* the first call that served `data`: its readings and its outcome
    between     \* TRUE once another request was served after `first`

vars == <<data, args, called, readings, raised, response, loop, perm, first, between>>

\* ------------------------------------------------------------ arithmetic
RECURSIVE SumSeq(_)
SumSeq(s) == IF s = <<>> THEN 0 ELSE Head(s) + SumSeq(Tail(s))

RECURSIVE SqrtBetween(_, _, _)
\* the largest r in lo..hi with r*r <= x, given lo*lo <= x
SqrtBetween(x, lo, hi) ==
    IF lo >= hi THEN lo
    ELSE LET mid == (lo + hi + 1) \div 2
         IN  IF mid * mid <= x THEN SqrtBetween(x, mid, hi)
             ELSE SqrtBetween(x, lo, mid - 1)

ISqrt(x) == SqrtBetween(x, 0, 46340)

RECURSIVE Pow10(_)
Pow10(n) == IF n = 0 THEN 1 ELSE 10 * Pow10(n - 1)

RECURSIVE GCD(_, _)
GCD(a, b) == IF b = 0 THEN a ELSE GCD(b, a % b)

Abs(x) == IF x < 0 THEN 0 - x ELSE x

\* floor of n/d for d > 0, whatever the sign of n
FloorDiv(n, d) == IF n >= 0 THEN n \div d ELSE 0 - ((0 - n + d - 1) \div d)

\* n/d rounded to the nearest integer, ties to the even one (as round() does)
RoundHalfEven(n, d) ==
    LET q == FloorDiv(n, d)
        r == n - q * d
    IN  IF 2 * r < d THEN q
        ELSE IF 2 * r > d THEN q + 1
        ELSE IF q % 2 = 0 THEN q ELSE q + 1

\* round(q, digits), in units of 10^-digits
Round(q, digits) ==
    LET g == GCD(Pow10(digits), q.den)
    IN  RoundHalfEven(q.num * (Pow10(digits) \div g), q.den \div g)

RECURSIVE RatCmp(_, _, _, _)
\* the sign of n1/d1 - n2/d2 (d1, d2 > 0), without forming the cross products
RatCmp(n1, d1, n2, d2) ==
    LET q1 == FloorDiv(n1, d1)
        q2 == FloorDiv(n2, d2)
        r1 == n1 - q1 * d1
        r2 == n2 - q2 * d2
    IN  IF q1 # q2 THEN (IF q1 < q2 THEN 0 - 1 ELSE 1)
        ELSE IF r1 = 0 /\ r2 = 0 THEN 0
        ELSE IF r1 = 0 THEN 0 - 1
        ELSE IF r2 = 0 THEN 1
        ELSE RatCmp(d2, r2, d1, r1)

RatLess(a, b) == RatCmp(a.num, a.den, b.num, b.den) < 0

\* ------------------------------------------------- TfidfVectorizer (text)
\* every word of the model, in the vectorizer's (sorted) feature order
Alphabet == <<"ML", "a", "cooking", "ml", "the">>

lowercase(w) == IF w = "ML" THEN "ml" ELSE w

\* token_pattern (?u)\b\w\w+\b keeps the words of two characters or more
token_pattern(w) == w # "a"

ENGLISH_STOP_WORDS == {"a", "the"}

\* build_analyzer: lower-case, tokenize, drop the stop words
analyze(doc) ==
    LET lowered == [i \in DOMAIN doc |-> lowercase(doc[i])]
        keep(w) == token_pattern(w) /\ w \notin ENGLISH_STOP_WORDS
    IN  SelectSeq(lowered, keep)

Count(tokens, t) == Cardinality({i \in DOMAIN tokens : tokens[i] = t})

\* natural logarithms of 1..8, in thousandths
LnMilli == <<0, 693, 1099, 1386, 1609, 1792, 1946, 2079>>

\* smooth idf: ln((1 + n) / (1 + df)) + 1, in thousandths
smooth_idf(n, df) == LnMilli[1 + n] - LnMilli[1 + df] + 1000

\* sklearn.preprocessing.normalize(norm="l2"): a zero row stays zero
normalize(v) ==
    LET norm == ISqrt(SumSeq([i \in DOMAIN v |-> v[i] * v[i]]))
    IN  IF norm = 0 THEN v
        ELSE [i \in DOMAIN v |-> (v[i] * SimScale) \div norm]

\* the number of documents that hold term t
document_frequency(docs, t) == Cardinality({d \in DOMAIN docs : Count(docs[d], t) > 0})

\* the tf-idf matrix: raw counts times idf, every row l2-normalised
transform(docs, vocabulary, idf) ==
    [ok |-> TRUE, vocabulary |-> vocabulary, idf |-> idf,
     tfidf |-> [d \in DOMAIN docs |->
                  normalize([j \in DOMAIN vocabulary |->
                               Count(docs[d], vocabulary[j]) * idf[j]])]]

\* fit: an empty vocabulary raises ValueError, else the idf of every term
fit(docs, vocabulary) ==
    IF vocabulary = <<>>
    THEN [ok |-> FALSE, vocabulary |-> <<>>, idf |-> <<>>, tfidf |-> <<>>]
    ELSE transform(docs, vocabulary,
                   [j \in DOMAIN vocabulary |->
                      smooth_idf(Len(docs), document_frequency(docs, vocabulary[j]))])

\* the vocabulary: the terms of the documents, sorted
learn_vocabulary(docs) ==
    LET inVocabulary(t) == \E d \in DOMAIN docs : Count(docs[d], t) > 0
    IN  fit(docs, SelectSeq(Alphabet, inVocabulary))

\* TfidfVectorizer(stop_words="english").fit_transform(corpus)
fit_transform(corpus) == learn_vocabulary([d \in DOMAIN corpus |-> analyze(corpus[d])])

\* cosine_similarity(X, Y) for the single row X: normalize both, then X . Y^T
cosine_similarity(user_vec, post_vecs) ==
    LET x == normalize(user_vec)
        dot(y) == SumSeq([j \in DOMAIN x |-> x[j] * y[j]]) \div SimScale
    IN  [i \in DOMAIN post_vecs |-> dot(normalize(post_vecs[i]))]

\* ------------------------------------------------------------ days_since
\* A created_at string is [form, day, tick]: form "date" is YYYY-MM-DD,
\* "datetime" a full ISO timestamp, "datetimeZ" one with a trailing Z,
\* "offset" one with a UTC offset such as +00:00, "invalid" anything else.
\* fromisoformat(date_str.replace("Z", "")), then strptime on ValueError
parse(date_str) ==
    CASE date_str.form = "date" ->
           [ok |-> TRUE, aware |-> FALSE, t |-> date_str.day * TicksPerDay]
      [] date_str.form \in {"datetime", "datetimeZ"} ->
           [ok |-> TRUE, aware |-> FALSE,
            t |-> date_str.day * TicksPerDay + date_str.tick]
      [] date_str.form = "offset" ->
           [ok |-> TRUE, aware |-> TRUE,
            t |-> date_str.day * TicksPerDay + date_str.tick]
      [] OTHER -> [ok |-> FALSE, aware |-> FALSE, t |-> 0]

\* (datetime.now() - date).days + 1, datetime.now() read at instant `now`
days_since(date_str, now) ==
    LET date == parse(date_str)
    IN  IF ~date.ok THEN [raised |-> "ValueError: time data does not match format", v |-> 0]
        ELSE IF date.aware
        THEN [raised |-> "TypeError: can't subtract offset-naive and offset-aware datetimes",
              v |-> 0]
        ELSE [raised |-> "", v |-> FloorDiv(now - date.t, TicksPerDay) + 1]

\* ----------------------------------------------- recommend_posts_for_user
RECURSIVE join(_)
\* " ".join(texts)
join(texts) == IF texts = <<>> THEN <<>> ELSE Head(texts) \o join(Tail(texts))

\* f"{p['title']} {p['description']} {p.get('category', '')}"
content(p) == p.title \o p.description \o p.category

\* the engagement with the weight of the dislikes lost: (likes - dislikes) / ...
engagement_unweighted(likes, dislikes) ==
    [num |-> 2 * likes - 2 * dislikes, den |-> 2 * (likes + dislikes + 1)]

\* (likes - 0.5 * dislikes) / (total_engagement + 1)
engagement_of(likes, dislikes) ==
    LET total_engagement == likes + dislikes
    IN  [num |-> 2 * likes - dislikes, den |-> 2 * (total_engagement + 1)]

\* 1 / age, for age # 0
recency_of(age) == [num |-> IF age < 0 THEN 0 - 1 ELSE 1, den |-> Abs(age)]

\* 0.6 * similarity + 0.3 * engagement + 0.1 * recency, over one denominator
score_of(similarity, engagement, recency) ==
    [num |-> 6 * similarity * engagement.den * recency.den
             + 3 * engagement.num * SimScale * recency.den
             + 1 * recency.num * SimScale * engagement.den,
     den |-> 10 * SimScale * engagement.den * recency.den]

\* a list kept from one call to the next instead of a fresh one
StaleRecommendations == response

\* the list the results are appended to: recommendations = []
NewRecommendations == <<>>

RECURSIVE insert_before_ties(_, _, _)
\* an insertion that puts `i` in front of the indices with an equal key
insert_before_ties(run, i, key) ==
    IF run = <<>> THEN <<i>>
    ELSE IF key[Head(run)] > key[i]
    THEN <<Head(run)>> \o insert_before_ties(Tail(run), i, key)
    ELSE <<i>> \o run

RECURSIVE insert(_, _, _)
\* `i` put into the descending run `run` of indices, behind every index whose
\* key is greater or equal
insert(run, i, key) ==
    IF run = <<>> THEN <<i>>
    ELSE IF key[Head(run)] >= key[i] THEN <<Head(run)>> \o insert(Tail(run), i, key)
    ELSE <<i>> \o run

RECURSIVE sorted_upto(_, _)
sorted_upto(k, key) ==
    IF k = 0 THEN <<>> ELSE insert(sorted_upto(k - 1, key), k, key)

\* list.sort(key=..., reverse=True): the order of the indices, stable
sort_reverse(key) == sorted_upto(Len(key), key)

\* the corpus: the interests first, then one document per post
corpus_of(user, posts) ==
    <<join(user.interests)>> \o [i \in DOMAIN posts |-> content(posts[i])]

\* what the iteration over a post raises, given what days_since gave: its
\* exception, or the ZeroDivisionError of 1 / 0
raised_by(age) ==
    IF age.raised # "" THEN age.raised
    ELSE IF age.v = 0 THEN "ZeroDivisionError: division by zero"
    ELSE ""

\* the first iteration that raises, Len(errors) + 1 when none does
first_raise(errors) ==
    LET failing == {i \in DOMAIN errors : errors[i] # ""}
    IN  IF failing = {} THEN Len(errors) + 1
        ELSE CHOOSE i \in failing : \A j \in failing : i <= j

\* the values of one iteration of the loop
iteration(post, similarity, age) ==
    LET likes == Len(post.likes)
        dislikes == Len(post.dislikes)
        engagement == engagement_of(likes, dislikes)
        recency == recency_of(age)
    IN  [similarity |-> similarity, likes |-> likes, dislikes |-> dislikes,
         engagement |-> engagement, age |-> age, recency |-> recency,
         score |-> score_of(similarity, engagement, recency)]

\* the dict appended for a post
annotated(post, l) ==
    [post_id |-> post.id, title |-> post.title,
     description |-> post.description, category |-> post.category,
     mediaType |-> post.mediaType, mediaUrl |-> post.mediaUrl,
     score |-> Round(l.score, ScoreDigits),
     similarity |-> RoundHalfEven(l.similarity * Pow10(PartDigits), SimScale),
     engagement |-> Round(l.engagement, PartDigits),
     recency |-> Round(l.recency, PartDigits)]

\* the outcome of a call: the exception raised ("" when none), the list
\* returned, the loop's values per post reached, the order the sort applied
failed(why, reached) ==
    [raised |-> why, recommendations |-> <<>>, locals |-> reached, order |-> <<>>]

returned(recommendations, reached, order) ==
    [raised |-> "",
     recommendations |-> [k \in DOMAIN order |-> recommendations[order[k]]],
     locals |-> reached, order |-> order]

\* recommendations.sort(key=lambda x: x["score"], reverse=True); return
sort_and_return(recommendations, reached) ==
    returned(recommendations, reached,
             sort_reverse([k \in DOMAIN recommendations |-> recommendations[k].score]))

\* the loop up to the iteration `stop`, which raises unless it is past the end
append_all(posts, reached, ages, stop) ==
    IF stop <= Len(posts) THEN failed(raised_by(ages[stop]), reached)
    ELSE sort_and_return(
             NewRecommendations \o [i \in DOMAIN posts |-> annotated(posts[i], reached[i])],
             reached)

score_all(posts, similarities, ages, stop) ==
    append_all(posts,
               [i \in 1..(stop - 1) |-> iteration(posts[i], similarities[i], ages[i].v)],
               ages, stop)

\* for i, post in enumerate(posts): ...
for_each_post(posts, similarities, ages) ==
    score_all(posts, similarities, ages,
              first_raise([i \in DOMAIN posts |-> raised_by(ages[i])]))

\* the call once the vectorizer is fitted; clock[i] is the reading of
\* datetime.now() taken for posts[i]
rank(posts, clock, fitted) ==
    IF ~fitted.ok
    THEN failed("ValueError: empty vocabulary; perhaps the documents only contain stop words",
                <<>>)
    ELSE IF Tail(fitted.tfidf) = <<>>
    THEN failed("ValueError: Found array with 0 sample(s) while a minimum of 1 is required",
                <<>>)
    ELSE for_each_post(posts,
                       cosine_similarity(fitted.tfidf[1], Tail(fitted.tfidf)),
                       [i \in DOMAIN posts |-> days_since(posts[i].created_at, clock[i])])

recommend_posts_for_user(user, posts, clock) ==
    rank(posts, clock, fit_transform(corpus_of(user, posts)))

\* --------------------------------------------------------------- requests
Today == 101
StartInstant == Today * TicksPerDay

Text(title, description, category) ==
    [title |-> title, description |-> description, category |-> category]

Post(id, text, likes, dislikes, created_at) ==
    [id |-> id, title |-> text.title, description |-> text.description,
     category |-> text.category, mediaType |-> "None", mediaUrl |-> "None",
     likes |-> likes, dislikes |-> dislikes, created_at |-> created_at]

Date(day) == [form |-> "date", day |-> day, tick |-> 0]
DateTime(form, day, tick) == [form |-> form, day |-> day, tick |-> tick]

AboutML == Text(<<"ML">>, <<"the", "ml">>, <<"a">>)
AboutCooking == Text(<<"cooking">>, <<"a", "cooking", "ML">>, <<"cooking">>)
NoWords == Text(<<>>, <<"the">>, <<"a">>)

\* created today, one like
p1 == Post("p1", AboutML, <<"u1">>, <<>>, Date(Today))
\* created in the second half of yesterday
p2 == Post("p2", AboutCooking, <<"u1", "u2">>, <<>>, DateTime("datetime", Today - 1, 1))
\* no word survives the analyzer; 100 and 99 days old
p3 == Post("p3", NoWords, <<>>, <<>>, Date(Today - 100))
p4 == Post("p4", NoWords, <<>>, <<>>, Date(Today - 99))
\* dislikes only
p5 == Post("p5", AboutML, <<>>, <<"u2">>, DateTime("datetimeZ", Today, 0))
\* created later today than the start instant
p6 == Post("p6", AboutCooking, <<"u1">>, <<"u2", "u3">>, DateTime("datetimeZ", Today, 1))
\* a creation date that is no date
p7 == Post("p7", AboutML, <<"u1">>, <<>>, DateTime("invalid", 0, 0))
\* a timestamp with a UTC offset
p8 == Post("p8", AboutML, <<>>, <<>>, DateTime("offset", Today - 1, 0))
\* created tomorrow
p9 == Post("p9", NoWords, <<"u1">>, <<"u2">>, DateTime("datetime", Today + 1, 1))

Pool == {p1, p2, p3, p4, p5, p6, p7, p8, p9}

Users == {[interests |-> <<>>], [interests |-> <<<<"the">>>>],
          [interests |-> <<<<"ML">>, <<"a", "cooking">>>>]}

PostLists == UNION {[1..n -> Pool] : n \in 0..MaxPosts}

Requests == [user : Users, posts : PostLists]

\* the readings datetime.now() can give during one call over n posts
Clocks(n) ==
    {c \in [1..n -> StartInstant..(StartInstant + MaxDrift)] :
        \A i \in 1..n : \A j \in 1..n : i <= j => c[i] <= c[j]}

NoCall == [set |-> FALSE, readings |-> <<>>, raised |-> "", recommendations |-> <<>>]

\* ---------------------------------------------------------------- actions
Init ==
    /\ data \in Requests
    /\ args = data
    /\ called = FALSE
    /\ readings = <<>>
    /\ raised = ""
    /\ response = <<>>
    /\ loop = <<>>
    /\ perm = <<>>
    /\ first = NoCall
    /\ between = FALSE

\* POST /recommend with request `req`, the clock reading `c` during the call
Serve(req, c) ==
    LET r == recommend_posts_for_user(req.user, req.posts, c)
    IN  /\ args' = req
        /\ called' = TRUE
        /\ readings' = c
        /\ raised' = r.raised
        /\ response' = r.recommendations
        /\ loop' = r.locals
        /\ perm' = r.order

\* get_recommendations(data): the request is served, once
GetRecommendations ==
    /\ ~called
    /\ \E c \in Clocks(Len(data.posts)) : Serve(data, c)
    /\ UNCHANGED <<data, first, between>>

Next == GetRecommendations

Spec == Init /\ [][Next]_vars

\* ------------------------------------------------- repeated calls (C7)
\* The same handler called again and again: the first outcome for `data` is
\* remembered, other requests are served before and between the calls for
\* `data`, and `data` is served again at the clock readings of its first call.
RepeatPool == {p1, p2, p3}

RepeatRequests ==
    [user : {[interests |-> <<>>], [interests |-> <<<<"ML">>, <<"a", "cooking">>>>]},
     posts : UNION {[1..n -> RepeatPool] : n \in 0..MaxPosts}]

OtherRequests ==
    {[user |-> [interests |-> <<<<"cooking">>>>], posts |-> <<p5>>],
     [user |-> [interests |-> <<<<"ML">>>>], posts |-> <<p4>>]}

InitRepeat == Init /\ data \in RepeatRequests

FirstCall ==
    /\ ~first.set
    /\ \E c \in Clocks(Len(data.posts)) : Serve(data, c)
    /\ first' = [set |-> TRUE, readings |-> readings', raised |-> raised',
                 recommendations |-> response']
    /\ UNCHANGED <<data, between>>

OtherCall ==
    /\ \E req \in OtherRequests : \E c \in Clocks(Len(req.posts)) : Serve(req, c)
    /\ between' = first.set
    /\ UNCHANGED <<data, first>>

RepeatCall ==
    /\ first.set
    /\ Serve(data, first.readings)
    /\ UNCHANGED <<data, first, between>>

NextRepeat == FirstCall \/ OtherCall \/ RepeatCall

SpecRepeat == InitRepeat /\ [][NextRepeat]_vars

\* ----------------------------------------------------------------- claims
\* the place of input index i in the output of the last call
Place(i) == CHOOSE k \in DOMAIN perm : perm[k] = i

Returned == called /\ raised = ""

AllParse == \A i \in DOMAIN args.posts : parse(args.posts[i].created_at).ok

\* the age the last call computed, or would compute, for post i
AgeOf(i) == days_since(args.posts[i].created_at, readings[i])

\* C1: the output is in descending order of the unrounded score: a candidate
\* with a greater unrounded score comes before one with a smaller, also when
\* the two scores are equal after rounding to 4 digits.
C1_SortedByUnroundedScore ==
    Returned =>
        \A a \in DOMAIN loop : \A b \in DOMAIN loop :
            RatLess(loop[b].score, loop[a].score) => Place(a) < Place(b)

\* C2: when every creation timestamp parses, the call returns one result per
\* candidate: the output is a permutation of the input candidates.
C2_OnePerCandidate ==
    (called /\ AllParse) =>
        /\ raised = ""
        /\ Len(response) = Len(args.posts)
        /\ {perm[k] : k \in DOMAIN perm} = DOMAIN args.posts
        /\ \A k \in DOMAIN response : response[k].post_id = args.posts[perm[k]].id

\* C3: an empty list of candidates gives an empty list of results, no failure.
C3_EmptyInputEmptyOutput ==
    (called /\ args.posts = <<>>) => (raised = "" /\ response = <<>>)

\* no document of the request has a word that survives the analyzer
EmptyVocabulary ==
    /\ analyze(join(args.user.interests)) = <<>>
    /\ \A i \in DOMAIN args.posts : analyze(content(args.posts[i])) = <<>>

NoTimeFault ==
    \A i \in DOMAIN args.posts : AgeOf(i).raised = "" /\ AgeOf(i).v # 0

\* C4: with an empty vocabulary the call does not fail: every similarity is
\* 0 and the output is ordered by the engagement and recency terms alone.
C4_EmptyVocabularyRanks ==
    (called /\ args.posts # <<>> /\ EmptyVocabulary /\ NoTimeFault) =>
        /\ raised = ""
        /\ \A i \in DOMAIN loop : loop[i].similarity = 0

\* C5: one candidate whose creation timestamp cannot be parsed makes the call
\* fail with the timestamp error and return nothing, wherever it stands.
C5_BadTimestampAborts ==
    (called /\ ~AllParse) =>
        /\ raised = "ValueError: time data does not match format"
        /\ response = <<>>

\* C6: the sort is stable: results of equal score keep their input order, and
\* so do two candidates of identical text, reactions and creation timestamp.
C6_StableSort ==
    Returned =>
        /\ \A k \in DOMAIN response : \A l \in DOMAIN response :
              (k < l /\ response[k].score = response[l].score) => perm[k] < perm[l]
        /\ \A i \in DOMAIN args.posts : \A j \in DOMAIN args.posts :
              (/\ i < j
               /\ content(args.posts[i]) = content(args.posts[j])
               /\ Len(args.posts[i].likes) = Len(args.posts[j].likes)
               /\ Len(args.posts[i].dislikes) = Len(args.posts[j].dislikes)
               /\ args.posts[i].created_at = args.posts[j].created_at)
              => Place(i) < Place(j)

C6_TieKeptInOrder ==
    /\ Returned
    /\ Len(response) >= 2
    /\ response[1].score = response[2].score
    /\ perm[1] < perm[2]
    /\ loop[perm[1]].score # loop[perm[2]].score

C8_AgeAtLeastOne ==
    called =>
        /\ raised # "ZeroDivisionError: division by zero"
        /\ \A i \in DOMAIN loop : loop[i].age >= 1 /\ loop[i].recency.num > 0

\* C9: within one call, two candidates with identical creation timestamps
\* get identical age and recency.
C9_OneEvaluationInstant ==
    called =>
        \A i \in DOMAIN loop : \A j \in DOMAIN loop :
            args.posts[i].created_at = args.posts[j].created_at
            => (loop[i].age = loop[j].age /\ loop[i].recency = loop[j].recency)

\* C10: with L likes and D dislikes the engagement is (L - 0.5 D) / (L + D + 1):
\* its denominator is not 0, it is 0 without reactions, and it is negative
\* exactly when D > 2 L.
C10_Engagement ==
    called =>
        \A i \in DOMAIN loop :
            LET L == Len(args.posts[i].likes)
                D == Len(args.posts[i].dislikes)
                e == loop[i].engagement
            IN  /\ e.den > 0
                /\ e.num * 2 * (L + D + 1) = (2 * L - D) * e.den
                /\ (L = 0 /\ D = 0) => e.num = 0
                /\ e.num < 0 <=> D > 2 * L
                /\ raised = "" =>
                      response[Place(i)].engagement = RoundHalfEven((2 * L - D) * 500, L + D + 1)

C10_AllSigns ==
    /\ Returned
    /\ \E i \in DOMAIN loop : loop[i].engagement.num < 0
    /\ \E i \in DOMAIN loop :
          /\ Len(args.posts[i].likes) = 0
          /\ Len(args.posts[i].dislikes) = 0
          /\ loop[i].engagement.num = 0
====
